---- MODULE Spec2Model ----
(***************************************************************************)
(* TaleToon retrieval module (scripts/retrieval_tfidf.py): the cleaned     *)
(* dataset and the two persisted index files on disk, one script process   *)
(* that loads the records, loads or builds the TF-IDF index and answers    *)
(* retrieve() calls.                                                       *)
(*                                                                         *)
(* Text is modelled at the level of chunks: a text is a sequence whose     *)
(* elements are either one whitespace character or one maximal run of      *)
(* non-whitespace characters (a word in some casing).  Weights are kept in *)
(* tenths (idf rounded to one decimal) and a cosine is kept as the exact   *)
(* fraction num / sqrt(qn * dn) so that ranking needs no floating point.   *)
(***************************************************************************)
EXTENDS Integers, Sequences, FiniteSets, TLC

(* ------------------------------ bounds -------------------------------- *)
\* longest dataset (number of records in festivals_cleaned.json)
MaxDocs == 3
\* largest top_k passed to retrieve; the smallest is -MaxTopK
MaxTopK == 3
\* how many times the cleaned dataset is rewritten by the preprocessing step
MaxEdits == 1
\* longest text handed to normalize_text, in chunks
MaxLen == 5
\* how many times normalize_text is applied in a row to one text
MaxCalls == 2

(* ------------------------------- text --------------------------------- *)
Whitespace == {" ", "\n"}

IsSpace(c) == c \in Whitespace

\* str.lower() on one chunk
LowerOf(c) ==
  CASE c = "Diwali" -> "diwali"
    [] c = "Holi" -> "holi"
    [] c = "Festival" -> "festival"
    [] c = "Lights" -> "lights"
    [] c = "Karthigai" -> "karthigai"
    [] c = "Deepavali" -> "deepavali"
    [] OTHER -> c

lower(s) == [i \in 1..Len(s) |-> LowerOf(s[i])]

RECURSIVE lstrip(_)
lstrip(s) == IF s # <<>> /\ IsSpace(Head(s)) THEN lstrip(Tail(s)) ELSE s

RECURSIVE rstrip(_)
rstrip(s) ==
  IF s # <<>> /\ IsSpace(s[Len(s)]) THEN rstrip(SubSeq(s, 1, Len(s) - 1)) ELSE s

\* str.strip()
strip(s) == rstrip(lstrip(s))

\* re.sub(r"\s+", " ", s): every maximal run of whitespace becomes one space
RECURSIVE collapse(_)
collapse(s) ==
  IF s = <<>> THEN <<>>
  ELSE IF IsSpace(Head(s))
       THEN <<" ">> \o collapse(lstrip(s))
       ELSE <<Head(s)>> \o collapse(Tail(s))

\* " ".join(parts)
RECURSIVE join(_)
join(parts) ==
  IF parts = <<>> THEN <<>>
  ELSE IF Len(parts) = 1 THEN parts[1]
  ELSE parts[1] \o <<" ">> \o join(Tail(parts))

\* filter(None, parts): empty strings are dropped
filter_none(parts) == SelectSeq(parts, LAMBDA p : p # <<>>)

\* a mutant of normalize_text, the one of retrieval_tfidf_test.py: it does not
\* lowercase
normalize_text_test(s) == collapse(strip(s))

\* normalize_text(s) for a str s
normalize_text(s) == collapse(lower(strip(s)))

(* ------------------------------ records ------------------------------- *)
\* rec.get(key, default)
Get(rec, key, default) == IF key \in DOMAIN rec THEN rec[key] ELSE default

\* isinstance(rec.get(key), list): the pool keeps list-valued keys as lists
IsList(rec, key) == key \in DOMAIN rec

build_search_text(rec) ==
  LET p1 == <<Get(rec, "canonical_name", <<>>)>>
      p2 == IF IsList(rec, "alternate_names") THEN rec["alternate_names"] ELSE <<>>
      p3 == <<Get(rec, "refined_summary", <<>>), Get(rec, "clean_description", <<>>)>>
      p4 == IF IsList(rec, "rituals_normalized") THEN rec["rituals_normalized"] ELSE <<>>
      text == join(filter_none(p1 \o p2 \o p3 \o p4))
  IN collapse(lower(strip(text)))

RecDiwali ==
  [festival_id |-> "F1",
   canonical_name |-> <<"Diwali">>,
   alternate_names |-> << <<"Deepavali">> >>,
   refined_summary |-> <<"Festival", " ", "of", " ", " ", "Lights">>,
   clean_description |-> <<>>,
   rituals_normalized |-> << <<"lighting", " ", "diyas">> >>]

RecHoli ==
  [festival_id |-> "F2",
   canonical_name |-> <<"Holi">>,
   refined_summary |-> <<"festival", " ", "of", " ", "colors", "\n">>,
   clean_description |-> <<"colors">>,
   regions_normalized |-> <<"Punjab">>]

RecKarthigai ==
  [festival_id |-> "F3",
   canonical_name |-> <<>>,
   refined_summary |-> <<"the", " ", "lights">>]

\* a record with no usable text: its fields are missing or hold stop words only
RecBlank ==
  [festival_id |-> "F4",
   clean_description |-> <<"of", " ", "the">>]

RecordPool == {RecDiwali, RecHoli, RecKarthigai, RecBlank}

\* a dataset is a JSON list of distinct records
Datasets ==
  UNION {{d \in [1..n -> RecordPool] : \A i, j \in 1..n : d[i] = d[j] => i = j}
         : n \in 0..MaxDocs}

(* ------------------- TfidfVectorizer (scikit-learn) ------------------- *)
\* stop_words="english": the members of the English stop list the texts use
StopWords == {"of", "the"}

\* the analyzer: lowercase, split into word tokens, drop stop words, then
\* emit the 1-grams followed by the 2-grams of what is left (ngram_range=(1, 2)).
\* A term is the sequence of its words.
analyze(text) ==
  LET low == lower(text)
      toks == SelectSeq(low, LAMBDA c : ~IsSpace(c) /\ c \notin StopWords)
  IN [i \in 1..Len(toks) |-> <<toks[i]>>]
       \o [i \in 1..(Len(toks) - 1) |-> <<toks[i], toks[i + 1]>>]

Range(s) == {s[i] : i \in 1..Len(s)}

Count(s, x) == Cardinality({i \in 1..Len(s) : s[i] = x})

\* the words of the texts in string order; a space sorts before every letter,
\* so comparing terms word by word is comparing the joined strings
SortedWords ==
  <<"colors", "deepavali", "diwali", "diyas", "festival", "holi", "karthigai",
    "lighting", "lights", "pongal">>

WordRank(w) == CHOOSE i \in 1..Len(SortedWords) : SortedWords[i] = w

TermLess(a, b) ==
  \/ WordRank(a[1]) < WordRank(b[1])
  \/ /\ a[1] = b[1]
     /\ \/ Len(a) < Len(b)
        \/ Len(a) = 2 /\ Len(b) = 2 /\ WordRank(a[2]) < WordRank(b[2])

\* sorted(terms): the vocabulary's column order
RECURSIVE SortTerms(_)
SortTerms(S) ==
  IF S = {} THEN <<>>
  ELSE LET m == CHOOSE t \in S : \A u \in S \ {t} : TermLess(t, u)
       IN <<m>> \o SortTerms(S \ {m})

\* smooth idf, ln((1 + n) / (1 + df)) + 1, in tenths
IdfTenths(n, df) ==
  CASE (1 + n) = (1 + df) -> 10
    [] <<1 + n, 1 + df>> = <<3, 2>> -> 14
    [] <<1 + n, 1 + df>> = <<4, 2>> -> 17
    [] <<1 + n, 1 + df>> = <<4, 3>> -> 13
    [] <<1 + n, 1 + df>> = <<5, 2>> -> 19
    [] <<1 + n, 1 + df>> = <<5, 3>> -> 15
    [] <<1 + n, 1 + df>> = <<5, 4>> -> 12
    [] <<1 + n, 1 + df>> = <<6, 2>> -> 21
    [] <<1 + n, 1 + df>> = <<6, 3>> -> 17
    [] <<1 + n, 1 + df>> = <<6, 4>> -> 14
    [] <<1 + n, 1 + df>> = <<6, 5>> -> 12

\* max_df=0.8 and min_df=1, the thresholds of the document frequency
MaxDfTenths == 8
MinDf == 1

\* which terms survive the document-frequency pruning
KeepTerm(df, n) == df >= MinDf /\ 10 * df <= MaxDfTenths * n

ValueError == [err |-> "ValueError"]

\* the terms of the corpus the document-frequency pruning keeps
SurvivingTerms(docs) ==
  LET n == Len(docs)
      all == UNION {Range(analyze(docs[i])) : i \in 1..n}
  IN {t \in all : KeepTerm(Cardinality({i \in 1..n : t \in Range(analyze(docs[i]))}), n)}

\* vectorizer.fit_transform(corpus): the fitted vectorizer and the matrix, or
\* the ValueError scikit-learn raises when no term is found or none survives.
\* A row holds tf * idf per column; the L2 normalisation is a positive scaling
\* of the row, which cosine_similarity undoes, so rows are kept unscaled.
fit_transform(docs) ==
  LET n == Len(docs)
      terms == [i \in 1..n |-> analyze(docs[i])]
      all == UNION {Range(terms[i]) : i \in 1..n}
      df(t) == Cardinality({i \in 1..n : t \in Range(terms[i])})
      kept == SurvivingTerms(docs)
      vocabulary == SortTerms(kept)
      idf == [c \in 1..Len(vocabulary) |-> IdfTenths(n, df(vocabulary[c]))]
  IN IF all = {} \/ MaxDfTenths * n < 10 * MinDf \/ kept = {}
     THEN ValueError
     ELSE [err |-> "",
           vectorizer |-> [vocabulary |-> vocabulary, idf |-> idf],
           matrix |-> [shape |-> <<n, Len(vocabulary)>>,
                       rows |-> [i \in 1..n |->
                                  [c \in 1..Len(vocabulary) |->
                                    Count(terms[i], vocabulary[c]) * idf[c]]]]]

\* vectorizer.transform([q]): terms outside the vocabulary are dropped
transform(vec, q) ==
  LET terms == analyze(q)
  IN [c \in 1..Len(vec.vocabulary) |-> Count(terms, vec.vocabulary[c]) * vec.idf[c]]

RECURSIVE SumSeq(_)
SumSeq(s) == IF s = <<>> THEN 0 ELSE Head(s) + SumSeq(Tail(s))

Dot(a, b) == SumSeq([c \in 1..Len(a) |-> a[c] * b[c]])

\* cosine_similarity(q_vec, matrix).flatten(): one cosine per matrix row, kept
\* as num / sqrt(qn * dn); a zero vector gives cosine 0.  Raises ValueError
\* when the query vector and the matrix differ in their number of columns.
cosine_similarity(q_vec, matrix) ==
  IF Len(q_vec) # matrix.shape[2]
  THEN ValueError
  ELSE [err |-> "",
        sims |-> [i \in 1..matrix.shape[1] |->
                   LET row == matrix.rows[i]
                       qn == Dot(q_vec, q_vec)
                       dn == Dot(row, row)
                   IN IF qn = 0 \/ dn = 0
                      THEN [num |-> 0, qn |-> qn, dn |-> dn]
                      ELSE [num |-> Dot(q_vec, row), qn |-> qn, dn |-> dn]]]

(* ------------------------------ ranking ------------------------------- *)
\* a / b < c / d for a, c >= 0 and b, d > 0, by continued fractions, so that no
\* product leaves the machine integers
RECURSIVE FracLess(_, _, _, _)
FracLess(a, b, c, d) ==
  IF a \div b # c \div d THEN a \div b < c \div d
  ELSE IF c % d = 0 THEN FALSE
  ELSE IF a % b = 0 THEN TRUE
  ELSE FracLess(d, c % d, b, a % b)

\* s < t for two cosines of one query (they share qn): compares num^2 / dn
ScoreLess(s, t) ==
  IF t.num = 0 THEN FALSE
  ELSE IF s.num = 0 THEN TRUE
  ELSE FracLess(s.num * s.num, s.dn, t.num * t.num, t.dn)

ScoreEq(s, t) == ~ScoreLess(s, t) /\ ~ScoreLess(t, s)

\* sims.argsort(): the row numbers by ascending cosine.  numpy's default sort
\* is not stable, so the order of equal cosines depends on the build: the
\* generic code path sorts short arrays by insertion (equal cosines keep their
\* row order), a vectorised sorting network does not (here: the opposite order).
RECURSIVE argsort_from(_, _, _)
argsort_from(sims, kind, S) ==
  IF S = {} THEN <<>>
  ELSE LET first(i, j) ==
             \/ ScoreLess(sims[i], sims[j])
             \/ /\ ScoreEq(sims[i], sims[j])
                /\ IF kind = "insertion" THEN i < j ELSE i > j
           m == CHOOSE i \in S : \A j \in S \ {i} : first(i, j)
       IN <<m>> \o argsort_from(sims, kind, S \ {m})

argsort(sims, kind) == argsort_from(sims, kind, 1..Len(sims))

\* seq[::-1]
Reverse(s) == [i \in 1..Len(s) |-> s[Len(s) + 1 - i]]

Min(a, b) == IF a < b THEN a ELSE b
Max(a, b) == IF a > b THEN a ELSE b

\* seq[:k]: a negative k counts from the end
SliceTo(s, k) ==
  IF k >= 0 THEN SubSeq(s, 1, Min(k, Len(s)))
  ELSE SubSeq(s, 1, Max(Len(s) + k, 0))

\* the ascending ranking, a mutant of top_idx that forgets the [::-1]
top_idx_ascending(sims, top_k, kind) == SliceTo(argsort(sims, kind), top_k)

\* sims.argsort()[::-1][:top_k]
top_idx(sims, top_k, kind) == SliceTo(Reverse(argsort(sims, kind)), top_k)

None == [none |-> TRUE]

\* rec.get(key)
GetOpt(rec, key) == IF key \in DOMAIN rec THEN [val |-> rec[key]] ELSE None

\* retrieve(query, top_k) on the globals recs, vec, mat: the result list (with the
\* row numbers it came from) or the exception that ends the call.  Row and
\* record numbers count from 1.
retrieve_on(recs, vec, mat, kind, query, top_k) ==
  LET q == normalize_text(query)
      q_vec == transform(vec, q)
      cs == cosine_similarity(q_vec, mat)
      idx == top_idx(cs.sims, top_k, kind)
  IN IF cs.err # "" THEN cs
     ELSE IF \E n \in 1..Len(idx) : idx[n] > Len(recs) THEN [err |-> "IndexError"]
     ELSE [err |-> "",
           top_idx |-> idx,
           results |-> [n \in 1..Len(idx) |->
                         LET rec == recs[idx[n]]
                         IN [festival_id |-> GetOpt(rec, "festival_id"),
                             canonical_name |-> GetOpt(rec, "canonical_name"),
                             refined_summary |-> GetOpt(rec, "refined_summary"),
                             regions |-> GetOpt(rec, "regions_normalized"),
                             rituals |-> GetOpt(rec, "rituals_normalized"),
                             score |-> cs.sims[idx[n]]]]]

\* a Python str object with the text s; None is the other object a caller passes
Str(s) == [val |-> s]

AttributeError == [err |-> "AttributeError"]

\* normalize_text(s) for any object s: None has no attribute strip
normalize_text_call(s) ==
  IF s = None THEN AttributeError ELSE [err |-> "", val |-> normalize_text(s.val)]

\* retrieve(query, top_k) for any object query: normalize_text(query) is its
\* first statement
retrieve(recs, vec, mat, kind, query, top_k) ==
  LET q == normalize_text_call(query)
  IN IF q.err # "" THEN q ELSE retrieve_on(recs, vec, mat, kind, query.val, top_k)

(* ------------------------------- files -------------------------------- *)
NoFile == [kind |-> "absent"]

\* a file that was opened for writing and not written to its end
Truncated == [kind |-> "truncated"]

\* Path.exists()
exists(f) == f.kind # "absent"

\* pickle.dump(vectorizer, file) and pickle.load(file)
pickle_dump(vec) == [kind |-> "pickle", obj |-> vec]
pickle_load(f) == IF f.kind = "pickle" THEN [err |-> "", obj |-> f.obj] ELSE [err |-> "EOFError"]

\* csr.tocoo(): the shape and the (row, column, value) triples of the nonzeros
tocoo(m) ==
  [shape |-> m.shape,
   entries |-> {<<i, j, m.rows[i][j]>> : i \in 1..m.shape[1], j \in 1..m.shape[2]}
                 \ {<<i, j, 0>> : i \in 1..m.shape[1], j \in 1..m.shape[2]}]

\* a mutant of tocsr that takes the row count from the last stored entry
tocsr_rows_from_entries(coo) ==
  LET nr == IF coo.entries = {} THEN 0
            ELSE CHOOSE r \in 1..coo.shape[1] :
                   /\ \E e \in coo.entries : e[1] = r
                   /\ \A e \in coo.entries : e[1] <= r
  IN [shape |-> <<nr, coo.shape[2]>>,
      rows |-> [i \in 1..nr |-> [j \in 1..coo.shape[2] |->
                 LET e == {t \in coo.entries : t[1] = i /\ t[2] = j}
                 IN IF e = {} THEN 0 ELSE (CHOOSE t \in e : TRUE)[3]]]]

\* coo.tocsr()
tocsr(coo) ==
  [shape |-> coo.shape,
   rows |-> [i \in 1..coo.shape[1] |-> [j \in 1..coo.shape[2] |->
              LET e == {t \in coo.entries : t[1] = i /\ t[2] = j}
              IN IF e = {} THEN 0 ELSE (CHOOSE t \in e : TRUE)[3]]]]

\* sparse.save_npz(file, coo) and sparse.load_npz(file)
save_npz(coo) == [kind |-> "npz", coo |-> coo]
load_npz(f) == IF f.kind = "npz" THEN [err |-> "", coo |-> f.coo] ELSE [err |-> "BadZipFile"]

(* ------------------------------- state -------------------------------- *)
VARIABLES
  dataset,       \* festivals_cleaned.json: the list of cleaned records
  vec_file,      \* tfidf_vectorizer.pkl
  matrix_file,   \* tfidf_matrix.npz
  pc,            \* where the script process is: "off" when none runs
  records,       \* the module globals of the process
  corpus,
  vectorizer,
  tfidf_matrix,
  branch,        \* "loaded" or "built": which side of the load-or-build it took
  error,         \* the exception that ended the process, "" when none
  last,          \* the last retrieve call: its arguments and its outcome
  argsortKind,   \* which sort the numpy build runs for argsort
  edits,         \* how often the dataset was rewritten
  built,         \* history: the globals of the last run that fitted and saved
                 \* the index, forgotten when the dataset is rewritten
  text,          \* a text handed to normalize_text on its own
  normalized     \* what normalize_text returned for it, then for its own result

vars ==
  <<dataset, vec_file, matrix_file, pc, records, corpus, vectorizer, tfidf_matrix,
    branch, error, last, argsortKind, edits, built, text, normalized>>

norm == <<text, normalized>>

disk == <<dataset, vec_file, matrix_file>>
globals == <<records, corpus, vectorizer, tfidf_matrix>>

NotSet == [unset |-> TRUE]
NoCall == [query |-> <<>>, missing |-> FALSE, top_k |-> 0, out |-> [err |-> "no call"]]

\* the record of a call retrieve(query, top_k): the text of the query (empty when
\* None was passed), whether None was passed, top_k and the outcome
Call(query, top_k, out) ==
  [query |-> IF query = None THEN <<>> ELSE query.val,
   missing |-> query = None,
   top_k |-> top_k,
   out |-> out]

\* the queries typed at the prompt
Queries ==
  { <<>>,
    <<" ", "Festival", " ", "of", "\n", "Lights", " ">>,
    <<"pongal", " ", "of">>,
    <<"Holi">> }

\* the objects passed as query: a typed text, or None from an importing script
QueryArgs == {Str(q) : q \in Queries} \cup {None}

TopKs == (0 - MaxTopK)..MaxTopK

Init ==
  /\ dataset \in Datasets
  /\ vec_file = NoFile
  /\ matrix_file = NoFile
  /\ pc = "off"
  /\ records = <<>>
  /\ corpus = <<>>
  /\ vectorizer = NotSet
  /\ tfidf_matrix = NotSet
  /\ branch = ""
  /\ error = ""
  /\ last = NoCall
  /\ argsortKind \in {"insertion", "network"}
  /\ edits = 0
  /\ built = NotSet
  /\ text = <<>>
  /\ normalized = <<>>

(* ------------------------------ actions ------------------------------- *)
\* what a new preprocessing run makes of the dataset: a festival is added at
\* the end, the last one is dropped, or the last one is replaced by another
Rewrites(ds) ==
  {d \in Datasets :
     \/ Len(d) = Len(ds) + 1 /\ SubSeq(d, 1, Len(ds)) = ds
     \/ Len(d) = Len(ds) - 1 /\ SubSeq(ds, 1, Len(d)) = d
     \/ /\ Len(d) = Len(ds) /\ d # ds
        /\ SubSeq(d, 1, Len(d) - 1) = SubSeq(ds, 1, Len(d) - 1)}

\* preprocess_festivals.py writes a new festivals_cleaned.json
Preprocess(d) ==
  /\ pc = "off"
  /\ edits < MaxEdits
  /\ d \in Rewrites(dataset)
  /\ dataset' = d
  /\ edits' = edits + 1
  /\ built' = NotSet
  /\ UNCHANGED <<norm, vec_file, matrix_file, pc, globals, branch, error, last, argsortKind>>

\* an index file is deleted by hand: the script rebuilds the index only when
\* one of the two files is missing
RemoveVecFile ==
  /\ exists(vec_file)
  /\ pc = "off"
  /\ vec_file' = NoFile
  /\ UNCHANGED <<norm, dataset, matrix_file, pc, globals, branch, error, last, argsortKind,
                 edits, built>>

RemoveMatrixFile ==
  /\ exists(matrix_file)
  /\ pc = "off"
  /\ matrix_file' = NoFile
  /\ UNCHANGED <<norm, dataset, vec_file, pc, globals, branch, error, last, argsortKind,
                 edits, built>>

\* the script starts: json.load of the dataset, then the corpus
Start ==
  /\ pc = "off"
  /\ records' = dataset
  /\ corpus' = [i \in 1..Len(dataset) |-> build_search_text(dataset[i])]
  /\ pc' = "start"
  /\ UNCHANGED <<norm, disk, vectorizer, tfidf_matrix, branch, error, last, argsortKind,
                 edits, built>>

\* both files exist: pickle.load and load_npz(...).tocsr()
Load ==
  /\ pc = "start"
  /\ exists(vec_file) /\ exists(matrix_file)
  /\ LET v == pickle_load(vec_file)
         m == load_npz(matrix_file)
     IN IF v.err # ""
        THEN /\ pc' = "failed" /\ error' = v.err
             /\ UNCHANGED <<vectorizer, tfidf_matrix, branch>>
        ELSE IF m.err # ""
        THEN /\ pc' = "failed" /\ error' = m.err
             /\ vectorizer' = v.obj
             /\ UNCHANGED <<tfidf_matrix, branch>>
        ELSE /\ pc' = "ready" /\ branch' = "loaded"
             /\ vectorizer' = v.obj
             /\ tfidf_matrix' = tocsr(m.coo)
             /\ UNCHANGED error
  /\ UNCHANGED <<norm, disk, records, corpus, last, argsortKind, edits, built>>

\* a file is missing: TfidfVectorizer(...).fit_transform(corpus)
Fit ==
  /\ pc = "start"
  /\ ~(exists(vec_file) /\ exists(matrix_file))
  /\ LET f == fit_transform(corpus)
     IN IF f.err # ""
        THEN /\ pc' = "failed" /\ error' = f.err
             /\ UNCHANGED <<vectorizer, tfidf_matrix>>
        ELSE /\ pc' = "fitted"
             /\ vectorizer' = f.vectorizer
             /\ tfidf_matrix' = f.matrix
             /\ UNCHANGED error
  /\ UNCHANGED <<norm, disk, records, corpus, branch, last, argsortKind, edits, built>>

\* open(vec_path, "wb") creates or empties the file
OpenVec ==
  /\ pc = "fitted"
  /\ vec_file' = Truncated
  /\ pc' = "vec_open"
  /\ UNCHANGED <<norm, dataset, matrix_file, globals, branch, error, last, argsortKind,
                 edits, built>>

\* pickle.dump(vectorizer, ...)
DumpVec ==
  /\ pc = "vec_open"
  /\ vec_file' = pickle_dump(vectorizer)
  /\ pc' = "vec_saved"
  /\ UNCHANGED <<norm, dataset, matrix_file, globals, branch, error, last, argsortKind,
                 edits, built>>

\* save_npz opens matrix_path for writing
OpenMatrix ==
  /\ pc = "vec_saved"
  /\ matrix_file' = Truncated
  /\ pc' = "matrix_open"
  /\ UNCHANGED <<norm, dataset, vec_file, globals, branch, error, last, argsortKind,
                 edits, built>>

\* sparse.save_npz(matrix_path, tfidf_matrix.tocoo()) completes
SaveMatrix ==
  /\ pc = "matrix_open"
  /\ matrix_file' = save_npz(tocoo(tfidf_matrix))
  /\ pc' = "ready"
  /\ branch' = "built"
  /\ built' = [records |-> records, vectorizer |-> vectorizer,
               tfidf_matrix |-> tfidf_matrix]
  /\ UNCHANGED <<norm, dataset, vec_file, globals, error, last, argsortKind, edits>>

\* a mutant of Retrieve that fits the query into the vectorizer
RetrieveRefit(query, top_k) ==
  /\ pc = "ready"
  /\ last' = Call(query, top_k,
                   retrieve(records, vectorizer, tfidf_matrix, argsortKind, query, top_k))
  /\ vectorizer' =
       LET new == IF query = None THEN {}
                  ELSE Range(analyze(normalize_text(query.val)))
                         \ Range(vectorizer.vocabulary)
       IN [vocabulary |-> vectorizer.vocabulary \o SortTerms(new),
           idf |-> vectorizer.idf \o [i \in 1..Cardinality(new) |-> 10]]
  /\ pc' = "returned"
  /\ UNCHANGED <<norm, disk, records, corpus, tfidf_matrix, branch, error, argsortKind,
                 edits, built>>

\* one call retrieve(query, top_k) from the prompt loop or an importing script
Retrieve(query, top_k) ==
  /\ pc = "ready"
  /\ last' = Call(query, top_k,
                   retrieve(records, vectorizer, tfidf_matrix, argsortKind, query, top_k))
  /\ pc' = "returned"
  /\ UNCHANGED <<norm, disk, globals, branch, error, argsortKind, edits, built>>

\* the caller has used the results (the prompt loop has printed them) and the
\* process waits for the next query
Prompt ==
  /\ pc = "returned"
  /\ pc' = "ready"
  /\ last' = NoCall
  /\ UNCHANGED <<norm, disk, globals, branch, error, argsortKind, edits, built>>

\* the process ends: the prompt loop exits, an exception ends the script, or it
\* is interrupted while it builds; its globals are gone
Exit ==
  /\ pc # "off"
  /\ pc' = "off"
  /\ records' = <<>>
  /\ corpus' = <<>>
  /\ vectorizer' = NotSet
  /\ tfidf_matrix' = NotSet
  /\ branch' = ""
  /\ error' = ""
  /\ last' = NoCall
  /\ UNCHANGED <<norm, disk, argsortKind, edits, built>>

Next ==
  \/ \E d \in Datasets : Preprocess(d)
  \/ RemoveVecFile
  \/ RemoveMatrixFile
  \/ Start
  \/ Load
  \/ Fit
  \/ OpenVec
  \/ DumpVec
  \/ OpenMatrix
  \/ SaveMatrix
  \/ \E q \in QueryArgs, k \in TopKs : Retrieve(q, k)
  \/ Prompt
  \/ Exit

Spec == Init /\ [][Next]_vars

(* ------------------------ normalize_text alone ------------------------ *)
\* the chunks of a text: a whitespace character, or a word in some casing
Chunks == Whitespace \cup {"Holi", "holi"}

\* a text in chunks: two words are never adjacent, they would be one word
IsText(t) == \A i \in 1..(Len(t) - 1) : IsSpace(t[i]) \/ IsSpace(t[i + 1])

Texts == {t \in UNION {[1..n -> Chunks] : n \in 0..MaxLen} : IsText(t)}

\* no process runs, nothing is on disk, a caller holds a text
NormalizeInit ==
  /\ dataset = <<>>
  /\ vec_file = NoFile
  /\ matrix_file = NoFile
  /\ pc = "off"
  /\ records = <<>>
  /\ corpus = <<>>
  /\ vectorizer = NotSet
  /\ tfidf_matrix = NotSet
  /\ branch = ""
  /\ error = ""
  /\ last = NoCall
  /\ argsortKind = "insertion"
  /\ edits = 0
  /\ built = NotSet
  /\ text \in Texts
  /\ normalized = <<>>

\* one call of normalize_text: on the text, then on what the call before returned
NormalizeText ==
  /\ Len(normalized) < MaxCalls
  /\ normalized' =
       Append(normalized,
              normalize_text(IF normalized = <<>> THEN text
                             ELSE normalized[Len(normalized)]))
  /\ UNCHANGED <<disk, pc, globals, branch, error, last, argsortKind, edits, built,
                 text>>

NormalizeNext == NormalizeText

NormalizeSpec == NormalizeInit /\ [][NormalizeNext]_vars

(* ------------------------------ claims -------------------------------- *)
\* a call retrieve(query, top_k) with a text as query has ended
Returned == pc = "returned" /\ ~last.missing
Answered == Returned /\ last.out.err = ""
Usable == pc \in {"ready", "returned"}

\* the index in memory has the shape of the records and of the vocabulary
ConsistentIndex ==
  /\ Usable
  /\ tfidf_matrix.shape[1] = Len(records)
  /\ tfidf_matrix.shape[2] = Len(vectorizer.vocabulary)

\* the index in memory is the one a fit of the loaded records gives
IndexFitted ==
  LET f == fit_transform(corpus)
  IN f.err = "" /\ vectorizer = f.vectorizer /\ tfidf_matrix = f.matrix

IsZero(score) == score.num = 0

\* the words of a query: its tokens that are no stop words
QueryWords(query) ==
  {c \in Range(normalize_text(query)) : ~IsSpace(c) /\ c \notin StopWords}

ContainsWord(rec, w) == w \in Range(build_search_text(rec))

\* the records that contain every word of the query
AllWordsDocs(recs, query) ==
  {i \in 1..Len(recs) : \A w \in QueryWords(query) : ContainsWord(recs[i], w)}

\* the records that contain some word of the query
SomeWordDocs(recs, query) ==
  {i \in 1..Len(recs) : \E w \in QueryWords(query) : ContainsWord(recs[i], w)}

\* C1: for top_k >= 1 the results of retrieve are in descending order of score,
\* two results of equal score are in ascending record order, and with all scores
\* zero the results are the first top_k records in corpus order.
C1_DescendingWithStableTies ==
  (Answered /\ last.top_k >= 1) =>
    LET idx == last.out.top_idx
        res == last.out.results
    IN /\ \A a, b \in 1..Len(res) :
            a < b => /\ ~ScoreLess(res[a].score, res[b].score)
                     /\ ScoreEq(res[a].score, res[b].score) => idx[a] < idx[b]
       /\ (\A a \in 1..Len(res) : IsZero(res[a].score)) =>
            idx = [a \in 1..Min(last.top_k, Len(records)) |-> a]

\* C2: for every query and every top_k >= 0, retrieve returns exactly
\* min(top_k, corpus size) results, and none for top_k = 0.
C2_TopKBound ==
  (Returned /\ last.top_k >= 0) =>
    /\ last.out.err = ""
    /\ Len(last.out.results) = Min(last.top_k, Len(records))

\* C2 on an index whose shape matches the records and the vocabulary
C2_TopKBoundOnConsistentIndex == ConsistentIndex => C2_TopKBound

\* C3: for every query and every top_k <= 0, retrieve returns an empty
\* sequence and raises no error.
C3_NonPositiveTopKIsEmpty ==
  (Returned /\ last.top_k <= 0) =>
    /\ last.out.err = ""
    /\ last.out.results = <<>>

\* C4: for a query that is empty or has only terms outside the vocabulary,
\* retrieve raises no error, leaves the vocabulary as it was fitted, and returns
\* min(top_k, corpus size) results for top_k >= 1, every score being 0.
C4_EmptyOrUnknownQueryScoresZero ==
  (Returned /\ Range(analyze(normalize_text(last.query)))
                 \cap Range(vectorizer.vocabulary) = {}) =>
    /\ last.out.err = ""
    /\ last.top_k >= 1 => Len(last.out.results) = Min(last.top_k, Len(records))
    /\ \A a \in 1..Len(last.out.results) : IsZero(last.out.results[a].score)

\* C4 on an index whose shape matches the records and the vocabulary
C4_ScoresZeroOnConsistentIndex == ConsistentIndex => C4_EmptyOrUnknownQueryScoresZero

KnownTerms(query) ==
  Range(analyze(normalize_text(query))) \cap Range(vectorizer.vocabulary)

FitTable == [d \in Datasets |-> fit_transform([i \in 1..Len(d) |-> build_search_text(d[i])])]

\* C6: with the corpus unchanged, a run that loads the index a building run
\* saved returns for every query and top_k the result sequence of the building
\* run: the same records in the same order with the same scores.
C6_SaveLoadSameResults ==
  (Returned /\ branch = "loaded" /\ built # NotSet /\ records = built.records) =>
    last.out = retrieve_on(built.records, built.vectorizer, built.tfidf_matrix,
                           argsortKind, last.query, last.top_k)

\* a loading run has answered a query with several scored results
C6_Witness ==
  /\ Answered /\ branch = "loaded" /\ built # NotSet /\ records = built.records
  /\ Len(last.out.results) = Len(records)
  /\ ~IsZero(last.out.results[1].score)
  /\ IsZero(last.out.results[Len(records)].score)

\* C7: whenever retrieve can be called the matrix has as many rows as there
\* are records and as many columns as the vocabulary has terms (inconsistent
\* files make the load fail instead).
C7_IndexShapeMatchesRecords ==
  Usable =>
    /\ tfidf_matrix.shape[1] = Len(records)
    /\ tfidf_matrix.shape[2] = Len(vectorizer.vocabulary)

\* C8: a run that finds both files and loads them obtains a vectorizer and a
\* matrix that one fit pass produced.
C8_LoadedPairFromOneFit ==
  (pc = "ready" /\ branch = "loaded") =>
    \E d \in Datasets :
      /\ Len(d) = tfidf_matrix.shape[1]
      /\ FitTable[d].err = ""
      /\ vectorizer = FitTable[d].vectorizer
      /\ tfidf_matrix = FitTable[d].matrix

\* C9: a retrieve call leaves the records, the vocabulary and idf, the matrix
\* and the files as they are, so the result of a call is the result the same
\* call gives on the index as it stands, whatever calls came before.
C9_RetrieveIsReadOnly ==
  /\ [][(pc \in {"ready", "returned"} /\ pc' \in {"ready", "returned"}) =>
          UNCHANGED <<records, corpus, vectorizer, tfidf_matrix, dataset, vec_file,
                      matrix_file>>]_vars
  /\ [](Returned =>
          last.out = retrieve_on(records, vectorizer, tfidf_matrix, argsortKind,
                                 last.query, last.top_k))

\* a call with a term outside the vocabulary has returned results
C9_Witness ==
  /\ Answered
  /\ last.query = <<"pongal", " ", "of">>
  /\ <<"pongal">> \notin Range(vectorizer.vocabulary)
  /\ last.out.results # <<>>

\* C10: building from a corpus in which no term survives raises no error: the
\* vocabulary is empty, the matrix has no column and every query scores 0 on
\* every record.
C10_NoSurvivingTermBuilds ==
  (SurvivingTerms(corpus) = {} /\ pc \notin {"off", "start"} /\ branch # "loaded"
     /\ error \notin {"EOFError", "BadZipFile"}) =>
    /\ error = ""
    /\ vectorizer.vocabulary = <<>>
    /\ tfidf_matrix.shape = <<Len(corpus), 0>>
    /\ Answered => \A a \in 1..Len(last.out.results) : IsZero(last.out.results[a].score)

\* a text is lowercase, has no whitespace at either end, and its whitespace is
\* single spaces
IsNormal(r) ==
  /\ \A j \in 1..Len(r) : LowerOf(r[j]) = r[j]
  /\ r # <<>> => ~IsSpace(r[1]) /\ ~IsSpace(r[Len(r)])
  /\ \A j \in 1..(Len(r) - 1) : ~(IsSpace(r[j]) /\ IsSpace(r[j + 1]))
  /\ \A j \in 1..Len(r) : IsSpace(r[j]) => r[j] = " "

C12_MissingInputIsEmptyText ==
  (pc = "returned" /\ last.missing) =>
    /\ normalize_text_call(Str(<<>>)) = [err |-> "", val |-> <<>>]
    /\ normalize_text_call(None) = [err |-> "", val |-> <<>>]
    /\ last.out = retrieve(records, vectorizer, tfidf_matrix, argsortKind,
                           Str(<<>>), last.top_k)

====
